---------------------------- MODULE Spec2Model ----------------------------
(***************************************************************************)
(* Model of crafty's first-person camera (src/src/camera.rs), of the list  *)
(* of cubes to draw (src/src/cubes_to_draw.rs) and of the font atlas       *)
(* (src/src/graphics/font.rs).                                             *)
(*                                                                         *)
(* f32 quantities are fixed-point integers:                                *)
(*   time        in tenths of a second            (elapsed = 5  is 0.5 s)  *)
(*   direction   in thousandths                   (cos = -1000 is -1.0)    *)
(*   amplitude   in tenths of a cube              (SPEED * elapsed)        *)
(*   position    in 1/10000 of a cube             (direction * amplitude)  *)
(*   velocity    in thousandths of a cube per second                       *)
(*   angles      in sixteenths of a turn          (PI = 8)                 *)
(* so that every product the code computes is exact in the model.          *)
(***************************************************************************)
EXTENDS Integers, Sequences, FiniteSets

VARIABLES
    camera,   \* struct Camera: position, rotation, the four flags, gravity_handler
    world,    \* the solid voxels above the chunk floor (the World the camera borrows)
    cubes,    \* struct CubesToDraw: cubes_to_draw, selected_cube_index
    calls,    \* number of calls made on the camera so far
    text,     \* the atlas cells of the characters rendered so far
    tally,    \* add_cube calls and remove_cube calls that found an instance, so far
    call,     \* the last call made: its name and its arguments
    prev      \* the camera, or the cubes to draw, as the last call found them

vars == <<camera, world, cubes, calls, text, tally, call, prev>>

---------------------------------------------------------------------------
(* Bounds of the model *)

\* Most calls made on the camera in one behaviour.
MaxCalls == 4

\* Most instances ever pushed onto cubes_to_draw in one behaviour.
MaxAdds == 4

\* Most characters rendered in one behaviour.
MaxText == 2

---------------------------------------------------------------------------
(* Fixed-point representation *)

\* One cube (1.0) in position units.
ONE == 10000

\* One second in time units (Duration::as_secs_f32 returns seconds).
SECOND == 10

\* std::f32::consts::PI in angle units; a full turn is 2 * PI.
PI == 8

HALF_PI == PI \div 2

FULL_TURN == 2 * PI

\* cos of k sixteenths of a turn, in thousandths.
CosTable == <<1000, 924, 707, 383, 0, -383, -707, -924,
              -1000, -924, -707, -383, 0, 383, 707, 924>>

cos(a) == CosTable[(a % FULL_TURN) + 1]

sin(a) == cos(a - HALF_PI)

Min(a, b) == IF a < b THEN a ELSE b

---------------------------------------------------------------------------
(* Program constants *)

\* Travel speed [cube/s]
SPEED == 2

PLAYER_HEIGHT == 2

\* let ratio = 10.;
RATIO == 10

\* crate::chunk::CHUNK_FLOOR: cubes below this height are solid ground.
CHUNK_FLOOR == 8

\* crate::gravity: downward acceleration, in hundredths of a cube per s^2.
GRAVITY == 981

\* crate::gravity: upward speed set by jump(), in thousandths of a cube per s.
JUMP_IMPULSE == 5000

\* crate::gravity: cap on the downward speed, in thousandths of a cube per s.
TERMINAL_VELOCITY == 50000

MotionState == {"W", "S", "A", "D", "None"}

---------------------------------------------------------------------------
(* Inputs *)

\* Elapsed durations of a frame: 0 s, 0.1 s, 0.5 s.
Elapsed == {0, 1, 5}

\* Mouse deltas and sensitivities; delta * sensitivity is in angle units.
MouseDelta == {-3, -1, 0, 1, 3}

Sensitivity == {1, 2}

---------------------------------------------------------------------------
(* Vector3 *)

VAdd(u, v) == <<u[1] + v[1], u[2] + v[2], u[3] + v[3]>>

VSub(u, v) == <<u[1] - v[1], u[2] - v[2], u[3] - v[3]>>

VScale(u, k) == <<u[1] * k, u[2] * k, u[3] * k>>

\* Floor division by ONE (\div of Integers rounds towards minus infinity).
to_cube_coordinates(p) == <<p[1] \div ONE, p[2] \div ONE, p[3] \div ONE>>

---------------------------------------------------------------------------
(* GravityHandler *)

GravityHandler_new == [velocity |-> 0]

\* velocity is positive downwards: the displacement returned is a drop.
gravity_jump(g) == [g EXCEPT !.velocity = -JUMP_IMPULSE]

gravity_step(g, is_falling, elapsed) ==
    IF is_falling
    THEN LET v == Min(g.velocity + GRAVITY * elapsed, TERMINAL_VELOCITY)
         IN  [handler |-> [g EXCEPT !.velocity = v], dz |-> v * elapsed]
    ELSE [handler |-> [g EXCEPT !.velocity = 0], dz |-> 0]

---------------------------------------------------------------------------
(* World *)

Solid(w, cube) == cube[2] < CHUNK_FLOOR \/ cube \in w

\* The cubes the player's body spans, from the feet up to the camera.
BodyCubes(p) ==
    LET c == to_cube_coordinates(p)
        feet == (p[2] - PLAYER_HEIGHT * ONE) \div ONE
    IN  {<<c[1], y, c[3]>> : y \in feet .. c[2]}

is_position_free(w, p) == \A cube \in BodyCubes(p) : ~Solid(w, cube)

\* The cube directly beneath the player's feet is empty.
is_position_free_falling(w, p) ==
    LET c == to_cube_coordinates(p)
        feet == (p[2] - PLAYER_HEIGHT * ONE) \div ONE
    IN  ~Solid(w, <<c[1], feet - 1, c[3]>>)

\* A wall one cube thick across the player's way, standing on the floor.
Wall == {<<2, y, z>> : y \in CHUNK_FLOOR .. CHUNK_FLOOR + 2, z \in 1 .. 5}

---------------------------------------------------------------------------
(* Camera *)

Camera_new ==
    [position        |-> <<4 * ONE, (CHUNK_FLOOR + PLAYER_HEIGHT) * ONE, 3 * ONE>>,
     rotation        |-> <<PI, 0>>,
     w_pressed       |-> FALSE,
     s_pressed       |-> FALSE,
     a_pressed       |-> FALSE,
     d_pressed       |-> FALSE,
     gravity_handler |-> GravityHandler_new]

ground_direction_forward(c) == <<cos(c.rotation[1]), 0, sin(c.rotation[1])>>

ground_direction_right(c) == <<sin(c.rotation[1]), 0, -cos(c.rotation[1])>>

amplitude(elapsed) == SPEED * elapsed

\* Only the first flag set is honoured (an else-if chain).
Heading_first_flag_only(c) ==
    LET f == ground_direction_forward(c)
        l == ground_direction_right(c)
        zero == <<0, 0, 0>>
    IN  IF c.w_pressed THEN f
        ELSE IF c.s_pressed THEN VSub(zero, f)
        ELSE IF c.d_pressed THEN l
        ELSE IF c.a_pressed THEN VSub(zero, l)
        ELSE zero

\* The displacement the flags ask for, for one unit of amplitude.
Heading(c) ==
    LET f == ground_direction_forward(c)
        l == ground_direction_right(c)
        zero == <<0, 0, 0>>
        p1 == IF c.w_pressed THEN VAdd(zero, f) ELSE zero
        p2 == IF c.s_pressed THEN VSub(p1, f) ELSE p1
        p3 == IF c.d_pressed THEN VAdd(p2, l) ELSE p2
        p4 == IF c.a_pressed THEN VSub(p3, l) ELSE p3
    IN  p4

next_pos(c, elapsed) == VAdd(c.position, VScale(Heading(c), amplitude(elapsed)))

next_pos_amplified(c, elapsed) ==
    VAdd(c.position, VScale(Heading(c), amplitude(elapsed) * RATIO))

\* The point step() hands to World::is_position_free.
free_query_point(c, elapsed) == next_pos_amplified(c, elapsed)

\* step() asks for free fall at the true candidate, not at the look-ahead.
falling_query_point_is_candidate(c, elapsed) == next_pos(c, elapsed)

\* The point step() hands to World::is_position_free_falling.
falling_query_point(c, elapsed) == next_pos_amplified(c, elapsed)

\* step() commits the candidate whatever the obstruction check said.
step_always_commits(c, elapsed, is_free, is_falling) ==
    LET g == gravity_step(c.gravity_handler, is_falling, elapsed)
        np == next_pos(c, elapsed)
    IN  [c EXCEPT !.gravity_handler = g.handler,
                  !.position = <<np[1], np[2] - g.dz, np[3]>>]

\* step() steps the gravity handler as if always falling.
step_always_falls(c, elapsed, is_free, is_falling) ==
    LET g == gravity_step(c.gravity_handler, TRUE, elapsed)
        np == next_pos(c, elapsed)
    IN  [c EXCEPT !.gravity_handler = g.handler,
                  !.position = IF is_free THEN <<np[1], np[2] - g.dz, np[3]>> ELSE @]

\* step() adds the drop instead of subtracting it.
step_adds_drop(c, elapsed, is_free, is_falling) ==
    LET g == gravity_step(c.gravity_handler, is_falling, elapsed)
        np == next_pos(c, elapsed)
    IN  [c EXCEPT !.gravity_handler = g.handler,
                  !.position = IF is_free THEN <<np[1], np[2] + g.dz, np[3]>> ELSE @]

\* step() commits the amplified look-ahead point.
step_commits_amplified(c, elapsed, is_free, is_falling) ==
    LET g == gravity_step(c.gravity_handler, is_falling, elapsed)
        np == next_pos_amplified(c, elapsed)
    IN  [c EXCEPT !.gravity_handler = g.handler,
                  !.position = IF is_free THEN <<np[1], np[2] - g.dz, np[3]>> ELSE @]

\* step() steps the gravity handler only in the frames it commits.
step_gravity_when_free(c, elapsed, is_free, is_falling) ==
    LET g == gravity_step(c.gravity_handler, is_falling, elapsed)
        np == next_pos(c, elapsed)
    IN  IF is_free
        THEN [c EXCEPT !.gravity_handler = g.handler,
                       !.position = <<np[1], np[2] - g.dz, np[3]>>]
        ELSE c

\* Camera::step, given the world's two answers for next_pos_amplified.
step(c, elapsed, is_free, is_falling) ==
    LET g == gravity_step(c.gravity_handler, is_falling, elapsed)
        np == next_pos(c, elapsed)
    IN  [c EXCEPT !.gravity_handler = g.handler,
                  !.position = IF is_free THEN <<np[1], np[2] - g.dz, np[3]>> ELSE @]

\* toggle_state() sets the flag (press semantics) instead of flipping it.
toggle_state_sets(c, state) ==
    CASE state = "W" -> [c EXCEPT !.w_pressed = TRUE]
      [] state = "S" -> [c EXCEPT !.s_pressed = TRUE]
      [] state = "A" -> [c EXCEPT !.a_pressed = TRUE]
      [] state = "D" -> [c EXCEPT !.d_pressed = TRUE]
      [] OTHER -> c

toggle_state(c, state) ==
    CASE state = "W" -> [c EXCEPT !.w_pressed = ~c.w_pressed]
      [] state = "S" -> [c EXCEPT !.s_pressed = ~c.s_pressed]
      [] state = "A" -> [c EXCEPT !.a_pressed = ~c.a_pressed]
      [] state = "D" -> [c EXCEPT !.d_pressed = ~c.d_pressed]
      [] OTHER -> c

\* jump() forgets to reach the gravity handler.
jump_does_nothing(c) == c

jump(c) == [c EXCEPT !.gravity_handler = gravity_jump(c.gravity_handler)]

\* up() lifts the camera by the player's height instead of one cube.
up_by_player_height(c) == [c EXCEPT !.position[2] = @ + PLAYER_HEIGHT * ONE]

up(c) == [c EXCEPT !.position[2] = @ + ONE]

down(c) == [c EXCEPT !.position[2] = @ - ONE]

\* The yaw is kept modulo a full turn: only its sine and cosine are ever used.
mousemove(c, horizontal, vertical, sensitivity) ==
    LET yaw == (c.rotation[1] - horizontal * sensitivity) % FULL_TURN
        pitch == c.rotation[2]
    IN  IF vertical > 0 /\ pitch < HALF_PI
        THEN [c EXCEPT !.rotation = <<yaw, pitch + vertical * sensitivity>>]
        ELSE IF vertical < 0 /\ pitch > -HALF_PI
             THEN [c EXCEPT !.rotation = <<yaw, pitch + vertical * sensitivity>>]
             ELSE [c EXCEPT !.rotation = <<yaw, pitch>>]

---------------------------------------------------------------------------
(* CubesToDraw.  An Option is the set of its values: {} is None, {i} is     *)
(* Some(i).  Indices are those of the Vec plus one.                         *)

\* Cube positions ([f32; 3], whole cubes) and block kinds of the cubes drawn.
CubePosition == {<<0, 0, 0>>, <<1, 0, 0>>}

Block == {"DIRT", "GRASS"}

Cube == [position : CubePosition, block : Block]

CubeInstance_new(c) == [position |-> c.position, block |-> c.block, is_selected |-> FALSE]

CubesToDraw_new == [cubes_to_draw |-> <<>>, selected_cube_index |-> {}]

add_cube(cs, c) == [cs EXCEPT !.cubes_to_draw = Append(@, CubeInstance_new(c))]

\* Vec::swap_remove: the last element takes the place of the one removed.
swap_remove(v, i) ==
    IF i = Len(v)
    THEN SubSeq(v, 1, Len(v) - 1)
    ELSE SubSeq([v EXCEPT ![i] = v[Len(v)]], 1, Len(v) - 1)

\* The indices of the instances at a position.
IndicesAt(cs, position) ==
    {i \in 1 .. Len(cs.cubes_to_draw) : cs.cubes_to_draw[i].position = position}

FirstIndex(S) == CHOOSE i \in S : \A j \in S : i <= j

\* remove_cube() drops the last instance instead of the one found.
remove_cube_pops(cs, position) ==
    IF IndicesAt(cs, position) = {}
    THEN cs
    ELSE LET i == FirstIndex(IndicesAt(cs, position))
         IN  [cs EXCEPT !.selected_cube_index = IF @ = {i} THEN {} ELSE @,
                        !.cubes_to_draw = SubSeq(@, 1, Len(@) - 1)]

remove_cube(cs, position) ==
    IF IndicesAt(cs, position) = {}
    THEN cs
    ELSE LET i == FirstIndex(IndicesAt(cs, position))
         IN  [cs EXCEPT !.selected_cube_index = IF @ = {i} THEN {} ELSE @,
                        !.cubes_to_draw = swap_remove(@, i)]

number_cubes_rendered(cs) == Len(cs.cubes_to_draw)

\* Points a cube may be selected at (Vector3, in position units): inside
\* the cube at (0, 0, 0) and inside the cube at (1, 0, 0).
SelectPoint == {<<ONE \div 2, ONE \div 4, 0>>, <<ONE + ONE \div 2, 0, ONE \div 4>>}

\* set_selected_cube() returns on its first line: the rest is never run.
set_selected_cube(cs, selected_cube) == cs

---------------------------------------------------------------------------
(* Font atlas.  get_index returns [x / N_COLS, y / N_ROWS]; the model keeps  *)
(* the pair <<x, y>>, which is the f32 pair times <<N_COLS, N_ROWS>>: the   *)
(* column and the row of the cell in the atlas.                             *)

N_ROWS == 8

N_COLS == 16

GLChar ==
    {"A", "B", "C", "D", "E", "F", "G", "H", "I",
     "J", "K", "L", "M", "N", "O", "P", "Q", "R",
     "S", "T", "U", "V", "W", "X", "Y", "Z", "DOT",
     "DOUBLEPOINT", "COMMA"}

\* The characters from_char supports; it panics on any other.
SupportedChar ==
    {"a", "b", "c", "d", "e", "f", "g", "h", "i",
     "j", "k", "l", "m", "n", "o", "p", "q", "r",
     "s", "t", "u", "v", "w", "x", "y", "z", ".",
     ":", ","}

from_char(c) ==
    CASE c = "a" -> "A"
      [] c = "b" -> "B"
      [] c = "c" -> "C"
      [] c = "d" -> "D"
      [] c = "e" -> "E"
      [] c = "f" -> "F"
      [] c = "g" -> "G"
      [] c = "h" -> "H"
      [] c = "i" -> "I"
      [] c = "j" -> "J"
      [] c = "k" -> "K"
      [] c = "l" -> "L"
      [] c = "m" -> "M"
      [] c = "n" -> "N"
      [] c = "o" -> "O"
      [] c = "p" -> "P"
      [] c = "q" -> "Q"
      [] c = "r" -> "R"
      [] c = "s" -> "S"
      [] c = "t" -> "T"
      [] c = "u" -> "U"
      [] c = "v" -> "V"
      [] c = "w" -> "W"
      [] c = "x" -> "X"
      [] c = "y" -> "Y"
      [] c = "z" -> "Z"
      [] c = "." -> "DOT"
      [] c = ":" -> "DOUBLEPOINT"
      [] c = "," -> "COMMA"

get_index(g) ==
    CASE g = "A" -> <<1, 3>>
      [] g = "B" -> <<2, 3>>
      [] g = "C" -> <<3, 3>>
      [] g = "D" -> <<4, 3>>
      [] g = "E" -> <<5, 3>>
      [] g = "F" -> <<6, 3>>
      [] g = "G" -> <<7, 3>>
      [] g = "H" -> <<8, 3>>
      [] g = "I" -> <<10, 3>>
      [] g = "J" -> <<11, 3>>
      [] g = "K" -> <<12, 3>>
      [] g = "L" -> <<13, 3>>
      [] g = "M" -> <<14, 3>>
      [] g = "N" -> <<15, 3>>
      [] g = "O" -> <<16, 3>>
      [] g = "P" -> <<0, 2>>
      [] g = "Q" -> <<1, 2>>
      [] g = "R" -> <<2, 2>>
      [] g = "S" -> <<3, 2>>
      [] g = "T" -> <<4, 2>>
      [] g = "U" -> <<5, 2>>
      [] g = "V" -> <<6, 2>>
      [] g = "W" -> <<7, 2>>
      [] g = "X" -> <<8, 2>>
      [] g = "Y" -> <<9, 2>>
      [] g = "Z" -> <<10, 2>>
      [] g = "COMMA" -> <<12, 5>>
      [] g = "DOT" -> <<14, 5>>
      [] g = "DOUBLEPOINT" -> <<10, 4>>

---------------------------------------------------------------------------
(* The record of the last call.  Besides the call and its arguments it      *)
(* keeps: after, the call made before it; fell, the time spent in step()    *)
(* calls answered free-falling since the vertical velocity was last set;    *)
(* base, the velocity it was set to (0, or the impulse of jump());          *)
(* blocked, the free-falling frames rejected in a row up to this call.      *)

NoCall ==
    [op |-> "new", state |-> "None", elapsed |-> 0, is_free |-> TRUE,
     is_falling |-> FALSE, amplified |-> <<0, 0, 0>>,
     falling_at |-> <<0, 0, 0>>, dz |-> 0,
     horizontal |-> 0, vertical |-> 0, sensitivity |-> 0,
     position |-> <<0, 0, 0>>, selected |-> {},
     after |-> "new", after_grounded |-> TRUE,
     fell |-> 0, base |-> 0, blocked |-> 0, blocked_before |-> 0]

Init ==
    /\ camera = Camera_new
    /\ world = Wall
    /\ cubes = CubesToDraw_new
    /\ calls = 0
    /\ tally = [adds |-> 0, removes |-> 0]
    /\ text = <<>>
    /\ call = NoCall
    /\ prev = Camera_new

---------------------------------------------------------------------------
(* Calls on the camera; the world answers as it pleases *)

\* Every counted call takes one of the MaxCalls calls of a behaviour.
Count == calls < MaxCalls /\ calls' = calls + 1

Step ==
    /\ Count
    /\ \E elapsed \in Elapsed, is_free \in BOOLEAN, is_falling \in BOOLEAN :
          /\ camera' = step(camera, elapsed, is_free, is_falling)
          /\ call' = [NoCall EXCEPT !.op = "step", !.elapsed = elapsed,
                         !.is_free = is_free, !.is_falling = is_falling,
                         !.amplified = free_query_point(camera, elapsed),
                         !.falling_at = falling_query_point(camera, elapsed),
                         !.dz = gravity_step(camera.gravity_handler, is_falling, elapsed).dz,
                         !.after = call.op,
                         !.fell = IF is_falling THEN call.fell + elapsed ELSE 0,
                         !.base = IF is_falling THEN call.base ELSE 0,
                         !.blocked = IF is_falling /\ ~is_free THEN call.blocked + 1 ELSE 0,
                         !.blocked_before = call.blocked,
                         !.after_grounded = (prev.gravity_handler.velocity = 0)]
    /\ prev' = camera
    /\ UNCHANGED <<world, cubes, tally, text>>

ToggleState ==
    /\ Count
    /\ \E state \in MotionState :
          /\ camera' = toggle_state(camera, state)
          /\ call' = [NoCall EXCEPT !.op = "toggle_state", !.state = state,
                         !.after = call.op,
                         !.fell = call.fell, !.base = call.base,
                         !.blocked = call.blocked,
                         !.after_grounded = (prev.gravity_handler.velocity = 0)]
    /\ prev' = camera
    /\ UNCHANGED <<world, cubes, tally, text>>

Jump ==
    /\ Count
    /\ camera' = jump(camera)
    /\ call' = [NoCall EXCEPT !.op = "jump", !.after = call.op,
                         !.fell = 0, !.base = -JUMP_IMPULSE,
                         !.blocked = call.blocked,
                         !.after_grounded = (prev.gravity_handler.velocity = 0)]
    /\ prev' = camera
    /\ UNCHANGED <<world, cubes, tally, text>>

MouseMoved(horizontal, vertical, sensitivity) ==
    /\ camera' = mousemove(camera, horizontal, vertical, sensitivity)
    /\ call' = [NoCall EXCEPT !.op = "mousemove", !.horizontal = horizontal,
                   !.vertical = vertical, !.sensitivity = sensitivity,
                   !.after = call.op,
                         !.fell = call.fell, !.base = call.base,
                         !.blocked = call.blocked,
                         !.after_grounded = (prev.gravity_handler.velocity = 0)]
    /\ prev' = camera
    /\ UNCHANGED <<world, cubes, tally, text>>

MouseMove ==
    /\ UNCHANGED <<calls, text>>
    /\ \E horizontal \in MouseDelta, vertical \in MouseDelta, sensitivity \in Sensitivity :
        MouseMoved(horizontal, vertical, sensitivity)

\* The mouse moved sideways, by a sixteenth or an eighth of a turn.
Turn == Count /\ \E sensitivity \in Sensitivity : MouseMoved(1, 0, sensitivity)

Up ==
    /\ Count
    /\ camera' = up(camera)
    /\ call' = [NoCall EXCEPT !.op = "up", !.after = call.op,
                         !.fell = call.fell, !.base = call.base,
                         !.blocked = call.blocked,
                   !.after_grounded = (prev.gravity_handler.velocity = 0)]
    /\ prev' = camera
    /\ UNCHANGED <<world, cubes, tally, text>>

Down ==
    /\ Count
    /\ camera' = down(camera)
    /\ call' = [NoCall EXCEPT !.op = "down", !.after = call.op,
                         !.fell = call.fell, !.base = call.base,
                         !.blocked = call.blocked,
                   !.after_grounded = (prev.gravity_handler.velocity = 0)]
    /\ prev' = camera
    /\ UNCHANGED <<world, cubes, tally, text>>

Next == Step \/ ToggleState \/ Jump \/ Turn \/ Up \/ Down

Spec == Init /\ [][Next]_vars

\* The camera's orientation alone.
NextLook == MouseMove

SpecLook == Init /\ [][NextLook]_vars

---------------------------------------------------------------------------
(* The camera in a static voxel world *)

StepInWorld ==
    /\ Count
    /\ \E elapsed \in Elapsed :
          LET p == free_query_point(camera, elapsed)
              q == falling_query_point(camera, elapsed)
              is_free == is_position_free(world, p)
              is_falling == is_position_free_falling(world, q)
          IN  /\ camera' = step(camera, elapsed, is_free, is_falling)
              /\ call' = [NoCall EXCEPT !.op = "step", !.elapsed = elapsed,
                             !.is_free = is_free, !.is_falling = is_falling,
                             !.amplified = p,
                             !.falling_at = q,
                             !.dz = gravity_step(camera.gravity_handler, is_falling, elapsed).dz,
                             !.after = call.op,
                         !.fell = IF is_falling THEN call.fell + elapsed ELSE 0,
                         !.base = IF is_falling THEN call.base ELSE 0,
                         !.blocked = IF is_falling /\ ~is_free THEN call.blocked + 1 ELSE 0,
                         !.blocked_before = call.blocked,
                         !.after_grounded = (prev.gravity_handler.velocity = 0)]
    /\ prev' = camera
    /\ UNCHANGED <<world, cubes, tally, text>>

NextWorld == StepInWorld \/ ToggleState \/ Jump

SpecWorld == Init /\ [][NextWorld]_vars

---------------------------------------------------------------------------
(* The camera in a voxel world that is edited between frames *)

\* The cubes an edit may make solid: those the player stands in at first.
EditCube == {<<4, CHUNK_FLOOR, 3>>, <<4, CHUNK_FLOOR + 1, 3>>}

\* An edit from outside the camera makes one more cube solid.
PlaceCube ==
    /\ Count
    /\ \E cube \in EditCube \ world :
          /\ world' = world \cup {cube}
          /\ call' = [NoCall EXCEPT !.op = "place_cube", !.position = cube,
                         !.after = call.op,
                         !.fell = call.fell, !.base = call.base,
                         !.blocked = call.blocked,
                         !.after_grounded = (prev.gravity_handler.velocity = 0)]
    /\ prev' = camera
    /\ UNCHANGED <<camera, cubes, tally, text>>

NextEdit == StepInWorld \/ ToggleState \/ Jump \/ Up \/ Down \/ PlaceCube

SpecEdit == Init /\ [][NextEdit]_vars

---------------------------------------------------------------------------
(* Calls on the cubes to draw *)

AddCube ==
    /\ tally.adds < MaxAdds
    /\ \E c \in Cube :
          /\ cubes' = add_cube(cubes, c)
          /\ call' = [NoCall EXCEPT !.op = "add_cube", !.position = c.position]
    /\ tally' = [tally EXCEPT !.adds = @ + 1]
    /\ prev' = cubes
    /\ UNCHANGED <<camera, world, calls, text>>

RemoveCube ==
    /\ \E position \in CubePosition :
          /\ cubes' = remove_cube(cubes, position)
          /\ call' = [NoCall EXCEPT !.op = "remove_cube", !.position = position]
          /\ tally' = [tally EXCEPT !.removes =
                          IF IndicesAt(cubes, position) = {} THEN @ ELSE @ + 1]
    /\ prev' = cubes
    /\ UNCHANGED <<camera, world, calls, text>>

SetSelectedCube ==
    /\ \E selected_cube \in {{}} \cup {{p} : p \in SelectPoint} :
          /\ cubes' = set_selected_cube(cubes, selected_cube)
          /\ call' = [NoCall EXCEPT !.op = "set_selected_cube",
                         !.selected = selected_cube]
    /\ prev' = cubes
    /\ UNCHANGED <<camera, world, calls, tally, text>>

NextCubes == AddCube \/ RemoveCube \/ SetSelectedCube

SpecCubes == Init /\ [][NextCubes]_vars

---------------------------------------------------------------------------
(* Rendering a text, one character at a time *)

RenderChar ==
    /\ Len(text) < MaxText
    /\ \E c \in SupportedChar :
          text' = Append(text, [glchar |-> from_char(c), index |-> get_index(from_char(c))])
    /\ UNCHANGED <<camera, world, cubes, calls, tally, call, prev>>

NextFont == RenderChar

SpecFont == Init /\ [][NextFont]_vars

---------------------------------------------------------------------------
(* Properties *)

Stepped == call.op = "step"

NoFlag(c) == ~c.w_pressed /\ ~c.s_pressed /\ ~c.a_pressed /\ ~c.d_pressed

OnlyForward(c) == c.w_pressed /\ ~c.s_pressed /\ ~c.a_pressed /\ ~c.d_pressed

\* C1: a step() whose look-ahead point the world answers obstructed leaves
\* the position (x, y and z) as it was, whatever the free-fall answer.
C1_ObstructedStepKeepsPosition ==
    (Stepped /\ ~call.is_free) => camera.position = prev.position

\* An obstructed, free-falling frame with a drop and a horizontal move to lose.
C1_Witness ==
    /\ Stepped /\ ~call.is_free /\ call.is_falling
    /\ call.dz # 0
    /\ next_pos(prev, call.elapsed) # prev.position
    /\ camera.position = prev.position

\* C2: after any sequence of mousemove() calls the pitch is strictly inside
\* (-PI/2, PI/2).
C2_PitchStrictlyInside ==
    -HALF_PI < camera.rotation[2] /\ camera.rotation[2] < HALF_PI

\* C3: a step() whose look-ahead point the world answers not free-falling
\* leaves the Y coordinate as it was.
C3_NotFallingKeepsY ==
    (Stepped /\ ~call.is_falling) => camera.position[2] = prev.position[2]

\* A landing frame right after jump(), committed with a horizontal move.
C3_Witness ==
    /\ Stepped /\ ~call.is_falling /\ call.is_free
    /\ call.after = "jump"
    /\ prev.gravity_handler.velocity = -JUMP_IMPULSE
    /\ call.elapsed > 0
    /\ camera.position # prev.position
    /\ camera.position[2] = prev.position[2]

\* C4 as stated: with no flag set and the world answering free-falling, a
\* step() of any elapsed duration (0 included) leaves X and Z unchanged and
\* makes Y strictly smaller.
C4_FallingStepLowersY ==
    (Stepped /\ NoFlag(prev) /\ call.is_falling) =>
        /\ camera.position[1] = prev.position[1]
        /\ camera.position[3] = prev.position[3]
        /\ camera.position[2] < prev.position[2]

\* C4 as amended: with no flag set, the world answering free-falling, an
\* elapsed duration above 0 and a vertical velocity that is not upward before
\* the call, step() leaves X and Z unchanged and makes Y strictly smaller if
\* the world answers free, and leaves Y unchanged if it answers obstructed;
\* with an elapsed duration of 0 the position is unchanged.
C4_FallingStepLowersY_Amended ==
    (Stepped /\ NoFlag(prev) /\ call.is_falling) =>
        /\ camera.position[1] = prev.position[1]
        /\ camera.position[3] = prev.position[3]
        /\ (call.elapsed > 0 /\ prev.gravity_handler.velocity >= 0) =>
              IF call.is_free
              THEN camera.position[2] < prev.position[2]
              ELSE camera.position[2] = prev.position[2]
        /\ call.elapsed = 0 => camera.position = prev.position

\* A committed free-fall frame without flags, after an earlier frame of fall.
C4_Witness ==
    /\ Stepped /\ NoFlag(prev) /\ call.is_falling /\ call.is_free
    /\ call.elapsed > 0
    /\ prev.gravity_handler.velocity > 0
    /\ camera.position[2] < prev.position[2]

\* C5: toggle_state() with the MotionState of the call just made restores the
\* camera that call found (flags, position, yaw, pitch); one call changes
\* nothing but a flag, and toggle_state(None) changes nothing.
C5_ToggleTwiceRestores ==
    call.op = "toggle_state" =>
        /\ toggle_state(camera, call.state) = prev
        /\ camera.position = prev.position
        /\ camera.rotation = prev.rotation
        /\ camera.gravity_handler = prev.gravity_handler
        /\ call.state = "None" => camera = prev

\* A flag was just switched off in a camera that has moved and turned.
C5_Witness ==
    /\ call.op = "toggle_state" /\ call.state = "A"
    /\ prev.a_pressed /\ ~camera.a_pressed
    /\ camera.position # Camera_new.position
    /\ camera.rotation # Camera_new.rotation

\* C6: with only the forward flag set, yaw = PI and the world answering free
\* and not falling, step() moves X down by exactly SPEED * elapsed and leaves
\* Y and Z unchanged (by 1.0 for 0.5 s from (4, 10, 3)).
C6_ForwardStepTrueDisplacement ==
    (Stepped /\ OnlyForward(prev) /\ prev.rotation[1] = PI
        /\ call.is_free /\ ~call.is_falling) =>
        /\ camera.position[1] = prev.position[1] - SPEED * call.elapsed * (ONE \div SECOND)
        /\ camera.position[2] = prev.position[2]
        /\ camera.position[3] = prev.position[3]

\* The scenario: from (4, 10, 3), 0.5 s forward, to (3, 10, 3).
C6_Witness ==
    /\ Stepped /\ OnlyForward(prev) /\ prev.rotation[1] = PI
    /\ call.is_free /\ ~call.is_falling
    /\ call.elapsed * 2 = SECOND
    /\ prev.position = <<4 * ONE, 10 * ONE, 3 * ONE>>
    /\ camera.position = <<3 * ONE, 10 * ONE, 3 * ONE>>

\* C7: jump() called with a vertical velocity of zero, then step() of 0.1 s
\* with the world answering free and free-falling: Y ends strictly higher.
C7_JumpThenStepRises ==
    (Stepped /\ call.after = "jump" /\ call.after_grounded
        /\ call.elapsed * 10 = SECOND /\ call.is_free /\ call.is_falling) =>
        camera.position[2] > prev.position[2]

\* Such a frame, reached after an earlier step() had grounded the player.
C7_Witness ==
    /\ Stepped /\ call.after = "jump" /\ call.after_grounded
    /\ call.elapsed * 10 = SECOND /\ call.is_free /\ call.is_falling
    /\ calls > 2
    /\ camera.position[2] > prev.position[2]

\* Number of instances equal to inst in a list.
Count_of(v, inst) == Cardinality({i \in 1 .. Len(v) : v[i] = inst})

InstancesOf(v) == {v[i] : i \in 1 .. Len(v)}

\* C8: remove_cube(p) with no instance at p changes nothing; with one or more
\* it removes exactly one instance at p and keeps every other instance; the
\* number of cubes rendered is the adds minus the removes that found one.
C8_RemoveCubeRemovesOne ==
    /\ number_cubes_rendered(cubes) = tally.adds - tally.removes
    /\ call.op = "remove_cube" =>
          IF IndicesAt(prev, call.position) = {}
          THEN cubes = prev
          ELSE /\ number_cubes_rendered(cubes) = number_cubes_rendered(prev) - 1
               /\ \E r \in InstancesOf(prev.cubes_to_draw) :
                     /\ r.position = call.position
                     /\ \A inst \in InstancesOf(prev.cubes_to_draw) :
                           Count_of(cubes.cubes_to_draw, inst) =
                              Count_of(prev.cubes_to_draw, inst) - (IF inst = r THEN 1 ELSE 0)
                     /\ InstancesOf(cubes.cubes_to_draw) \subseteq InstancesOf(prev.cubes_to_draw)

\* The first of two instances at a position was removed from a list of three
\* whose last instance is elsewhere, after an earlier removal.
C8_Witness ==
    /\ call.op = "remove_cube"
    /\ number_cubes_rendered(prev) = 3
    /\ IndicesAt(prev, call.position) = {1, 2}
    /\ Cardinality(IndicesAt(cubes, call.position)) = 1
    /\ number_cubes_rendered(cubes) = 2
    /\ tally.removes > 1

\* C9: in a frame where the world answers free-falling and the gravity handler
\* returns a non-zero displacement, Y changes by that displacement, also when
\* the world answers obstructed.
C9_FallNotGated ==
    (Stepped /\ call.is_falling /\ call.dz # 0) =>
        camera.position[2] = prev.position[2] - call.dz

\* C10: in a static voxel world the committed position is never one for which
\* is_position_free is false.
C10_CommittedPositionFree == is_position_free(world, camera.position)

\* C11: a step() made while the position overlaps a solid voxel that the
\* world queries reflect ends at a position for which is_position_free is
\* true, whatever the motion flags.
C11_OverlapCorrectedByStep ==
    (Stepped /\ ~is_position_free(world, prev.position)) =>
        is_position_free(world, camera.position)

\* The look-ahead point: the position plus RATIO times the frame's true
\* horizontal displacement.
LookAhead(c, elapsed) ==
    VAdd(c.position, VScale(VSub(next_pos(c, elapsed), c.position), RATIO))

\* C12: step() evaluates is_position_free and is_position_free_falling at the
\* same point: X and Z are the position plus 10 times the frame's true
\* horizontal displacement, Y is the current Y; with no flag set the point is
\* the current position.
C12_BothQueriesAtLookAhead ==
    Stepped =>
        /\ call.amplified = LookAhead(prev, call.elapsed)
        /\ call.falling_at = call.amplified
        /\ call.amplified[2] = prev.position[2]
        /\ NoFlag(prev) => call.amplified = prev.position

\* A frame with a flag set, a turned camera and a drop: the point queried is
\* neither the position nor the candidate committed.
C12_Witness ==
    /\ Stepped /\ call.is_free /\ call.is_falling
    /\ prev.rotation # Camera_new.rotation
    /\ call.dz # 0
    /\ call.amplified # prev.position
    /\ call.amplified # camera.position
    /\ call.falling_at = call.amplified
    /\ call.amplified = LookAhead(prev, call.elapsed)

\* The camera with one flag set and the others cleared, or none set.
WithOnly(c, state) ==
    toggle_state([c EXCEPT !.w_pressed = FALSE, !.s_pressed = FALSE,
                           !.a_pressed = FALSE, !.d_pressed = FALSE], state)

FlagsSet(c) ==
    {m \in {"W", "S", "A", "D"} :
        \/ m = "W" /\ c.w_pressed
        \/ m = "S" /\ c.s_pressed
        \/ m = "A" /\ c.a_pressed
        \/ m = "D" /\ c.d_pressed}

\* The true displacement of a frame in which only one flag is set.
Single(c, state, elapsed) ==
    IF state \in FlagsSet(c)
    THEN VSub(next_pos(WithOnly(c, state), elapsed), c.position)
    ELSE <<0, 0, 0>>

SumOfSingles(c, elapsed) ==
    VAdd(VAdd(Single(c, "W", elapsed), Single(c, "S", elapsed)),
         VAdd(Single(c, "A", elapsed), Single(c, "D", elapsed)))

SquaredLength(v) == v[1] * v[1] + v[2] * v[2] + v[3] * v[3]

Perpendicular(c) ==
    FlagsSet(c) \in {{"W", "A"}, {"W", "D"}, {"S", "A"}, {"S", "D"}}

\* C13: the flags combine additively: the true candidate moves by the vector
\* sum of the single-flag displacements and the look-ahead point by 10 times
\* that; an opposite pair contributes nothing to either; with two
\* perpendicular flags the committed horizontal displacement is that sum,
\* of squared length 2 * (SPEED * elapsed)^2 at a yaw along an axis.
C13_FlagsCombineAdditively ==
    Stepped =>
        LET e == call.elapsed
            sum == SumOfSingles(prev, e)
        IN  /\ next_pos(prev, e) = VAdd(prev.position, sum)
            /\ call.amplified = VAdd(prev.position, VScale(sum, RATIO))
            /\ (prev.w_pressed /\ prev.s_pressed) =>
                  next_pos(prev, e) =
                     next_pos([prev EXCEPT !.w_pressed = FALSE, !.s_pressed = FALSE], e)
            /\ (prev.a_pressed /\ prev.d_pressed) =>
                  next_pos(prev, e) =
                     next_pos([prev EXCEPT !.a_pressed = FALSE, !.d_pressed = FALSE], e)
            /\ FlagsSet(prev) \in {{"W", "S"}, {"A", "D"}, {"W", "S", "A", "D"}} =>
                  /\ next_pos(prev, e) = prev.position
                  /\ call.amplified = prev.position
            /\ call.is_free =>
                  /\ camera.position[1] = prev.position[1] + sum[1]
                  /\ camera.position[3] = prev.position[3] + sum[3]
            /\ (call.is_free /\ Perpendicular(prev) /\ prev.rotation[1] = PI) =>
                  SquaredLength(<<camera.position[1] - prev.position[1], 0,
                                  camera.position[3] - prev.position[3]>>)
                     = 2 * SquaredLength(Single(prev, "W", e))
                       + 2 * SquaredLength(Single(prev, "S", e))

\* A committed diagonal frame: forward and left, 0.5 s, from the first yaw.
C13_Witness ==
    /\ Stepped /\ call.is_free
    /\ FlagsSet(prev) = {"W", "A"}
    /\ prev.rotation[1] = PI
    /\ call.elapsed * 2 = SECOND
    /\ camera.position[1] = prev.position[1] - ONE
    /\ camera.position[3] # prev.position[3]

\* A frame with forward and backward both set and a third flag.
C13_WitnessOpposite ==
    /\ Stepped /\ call.is_free
    /\ FlagsSet(prev) = {"W", "S", "D"}
    /\ call.elapsed > 0

\* C14: every step() steps the gravity handler once with the free-fall
\* answer, committed or not: the velocity is the one it was last set to plus
\* the gravity of all the free-falling frames since, rejected ones included;
\* a rejected frame leaves the position alone; the first committed frame
\* drops by that whole velocity times its own duration.
C14_GravitySteppedEveryFrame ==
    /\ camera.gravity_handler.velocity =
          Min(call.base + GRAVITY * call.fell, TERMINAL_VELOCITY)
    /\ Stepped =>
          /\ camera.gravity_handler =
                gravity_step(prev.gravity_handler, call.is_falling, call.elapsed).handler
          /\ ~call.is_free => camera.position = prev.position
          /\ (call.is_free /\ call.is_falling) =>
                prev.position[2] - camera.position[2] =
                   call.elapsed * Min(call.base + GRAVITY * call.fell, TERMINAL_VELOCITY)

\* Two free-falling frames rejected in a row, then a committed one: the drop
\* is that of three frames of acceleration.
C14_Witness ==
    /\ Stepped /\ call.is_free /\ call.is_falling
    /\ call.blocked_before = 2
    /\ call.base = 0
    /\ call.elapsed = 1 /\ call.fell = 3
    /\ prev.position = Camera_new.position
    /\ prev.position[2] - camera.position[2] = 3 * GRAVITY

\* A jump() between rejected free-falling frames: its impulse has decayed
\* and the player has not moved.
C14_WitnessJump ==
    /\ Stepped /\ ~call.is_free /\ call.is_falling
    /\ call.blocked = 2
    /\ call.base = -JUMP_IMPULSE /\ call.fell > 0
    /\ camera.gravity_handler.velocity > -JUMP_IMPULSE
    /\ camera.position = Camera_new.position

\* C15: up() and down() move Y by exactly +1 and -1 cube and change nothing
\* else of the camera; the other of the two undoes it.
C15_UpDownMoveOneCube ==
    /\ call.op = "up" =>
          /\ camera.position = <<prev.position[1], prev.position[2] + ONE, prev.position[3]>>
          /\ [camera EXCEPT !.position = prev.position] = prev
          /\ down(camera) = prev
    /\ call.op = "down" =>
          /\ camera.position = <<prev.position[1], prev.position[2] - ONE, prev.position[3]>>
          /\ [camera EXCEPT !.position = prev.position] = prev
          /\ up(camera) = prev

\* up() right after down(), in a camera with a flag set and a vertical
\* velocity: the position is back where down() found it.
C15_Witness ==
    /\ call.op = "up" /\ call.after = "down"
    /\ prev.gravity_handler.velocity # 0
    /\ FlagsSet(prev) # {}
    /\ camera.position[2] = prev.position[2] + ONE
    /\ down(camera) = prev

\* C16: after set_selected_cube(Some(p)) with an instance drawn at the cube
\* coordinates of p, that instance is marked selected, no other instance is,
\* and selected_cube_index holds its index.
C16_SelectedCubeMarked ==
    (call.op = "set_selected_cube" /\ call.selected # {}) =>
        \A p \in call.selected :
            IndicesAt(prev, to_cube_coordinates(p)) # {} =>
                \E i \in IndicesAt(cubes, to_cube_coordinates(p)) :
                    /\ cubes.selected_cube_index = {i}
                    /\ \A j \in 1 .. Len(cubes.cubes_to_draw) :
                          cubes.cubes_to_draw[j].is_selected <=> j = i

\* C17: for every GLChar rendered, get_index is the corner of a cell inside
\* the atlas, column in 0..15 and row in 0..7, and two different GLChar never
\* get the same cell.
C17_GlyphCellsInsideAtlas ==
    \A i \in 1 .. Len(text) :
        /\ text[i].index[1] \in 0 .. N_COLS - 1
        /\ text[i].index[2] \in 0 .. N_ROWS - 1
        /\ \A j \in 1 .. Len(text) :
              text[i].glchar # text[j].glchar => text[i].index # text[j].index

=============================================================================
